---- MODULE Spec2Model ----
(***************************************************************************)
(* Model of the hammer-vlsi Innovus place-and-route plugin                 *)
(* (src/hammer-vlsi/par/innovus/__init__.py).                              *)
(*                                                                         *)
(* A Tcl command is modelled as the sequence of its lexical tokens (words, *)
(* with braces and brackets as tokens of their own); a script is the       *)
(* sequence of its lines, i.e. what "\n".join is applied to.  Paths and    *)
(* names are strings, built with \o where the code uses format/join.       *)
(* do_run is a sequential procedure; pc is its position, one action per    *)
(* statement group between two observable effects.                         *)
(***************************************************************************)
EXTENDS Integers, Sequences, FiniteSets, TLC

\* ---------------------------------------------------------------- bounds
MaxLefs == 1
MaxLibs == 2
MaxInputs == 2

\* ------------------------------------------------------ input universes
LefNames == {"tech.lef"}
LibNames == {"fast.lib", "slow.lib"}
InputNames == {[stem |-> "core", ext |-> ".v"], [stem |-> "core", ext |-> ".sdc"]}
TopModules == {"core", "top"}
FloorplanModes == {"manual", "generate", "blank", "bogus", "None"}
ScriptTexts == {<<>>, <<"A", "\n", "B">>}
SdcPaths == {"", "/syn/core.sdc"}
DieSizes == {<<"1100.0", "400.0", "100", "100", "100", "100">>,
             <<"2000.0", "800.0", "50", "50", "50", "50">>}
RunDirs == {"/build/par-rundir"}
Cwds == {"/work"}
InnovusBins == {"/opt/cadence/innovus"}
ExitStatuses == {0, 1}

SeqsUpTo(S, n) == UNION {[1..k -> S] : k \in 0..n}

\* ---------------------------------------------------------------- state
VARIABLES
    lef_files,                  \* result of self.read_libs([self.lef_filter], ...)
    liberty_libs,               \* words of self.get_liberty_libs()
    input_files,                \* self.input_files
    top_module,                 \* self.top_module
    floorplan_mode,             \* setting par.innovus.floorplan_mode
    floorplan_script_contents,  \* setting par.innovus.floorplan_script_contents
    post_synth_sdc,             \* self.post_synth_sdc
    die_size,                   \* configured die size and margins
    run_dir,                    \* self.run_dir
    cwd,                        \* os.getcwd()
    innovus_bin,                \* setting par.innovus.innovus_bin
    pc,                         \* position in do_run
    output,                     \* do_run's local command log
    output_innovus_lib_name,    \* do_run's local, set at line 82
    files,                      \* files written by this run, in write order
    executed,                   \* argument lists passed to run_executable, in order
    logged,                     \* messages passed to self.logger.error
    enable_colour,              \* HammerVLSILogging.enable_colour
    enable_tag,                 \* HammerVLSILogging.enable_tag
    exit_status,                \* exit status of the tool subprocess, -1 before it ends
    returned                    \* "running", "true", "false" or "raised"

config == <<lef_files, liberty_libs, input_files, top_module, floorplan_mode,
            floorplan_script_contents, post_synth_sdc, die_size, run_dir, cwd,
            innovus_bin>>
effects == <<output, output_innovus_lib_name, files, executed, logged,
             enable_colour, enable_tag, exit_status, returned>>
vars == <<config, pc, effects>>

\* -------------------------------------------------------------- helpers
\* os.path.join(a, b)
path_join(a, b) == a \o "/" \o b

\* the name of an input file
file_name(f) == f.stem \o f.ext

\* str.split("\n") on a text given as a sequence of pieces, "\n" being the
\* newline: the lines between the newlines, at least one line.
RECURSIVE split_lines(_, _, _)
split_lines(text, acc, cur) ==
    IF text = <<>> THEN Append(acc, cur)
    ELSE IF Head(text) = "\n" THEN split_lines(Tail(text), Append(acc, cur), "")
    ELSE split_lines(Tail(text), acc, cur \o Head(text))

split(text) == split_lines(text, <<>>, "")

\* HammerTool.verbose_tcl_append(cmd, output): append cmd to the log
verbose_tcl_append(cmd, out) == Append(out, cmd)

\* HammerTool.check_input_files(extensions)
check_input_files(inputs, extensions) ==
    \E i \in 1..Len(inputs) : inputs[i].ext \in extensions

\* the files written so far, by path
Written(path) == \E i \in 1..Len(files) : files[i].path = path

Content(path) ==
    LET i == CHOOSE j \in 1..Len(files) :
                 files[j].path = path /\ \A k \in (j+1)..Len(files) : files[k].path # path
    IN  files[i].content

write_file(path, content) == Append(files, [path |-> path, content |-> content])

\* ----------------------------------------------- generate_floorplan_tcl
generate_floorplan_tcl(die) ==
    << <<"# Floorplan automatically generated from HAMMER">>,
       <<"create_floorplan", "-core_margins_by", "die", "-die_size_by_io_height", "max",
         "-die_size", "{", "1100.0", "400.0", "100", "100", "100", "100", "}">> >>

\* create_floorplan_tcl without the test of line 154: "blank" is reported too
create_floorplan_tcl_reports_blank(mode, contents, die) ==
    IF mode = "manual" THEN
        [output |-> << <<"# Floorplan manually specified from HAMMER">> >>
                    \o [i \in 1..Len(split(contents)) |-> <<split(contents)[i]>>],
         errors |-> <<>>]
    ELSE IF mode = "generate" THEN
        [output |-> generate_floorplan_tcl(die), errors |-> <<>>]
    ELSE
        [output |-> << <<"# Blank floorplan specified from HAMMER">> >>,
         errors |-> <<"Invalid floorplan_mode " \o mode \o ". Using blank floorplan.">>]

\* ------------------------------------------------- create_floorplan_tcl
\* Returns the floorplan lines and the errors it logs.
create_floorplan_tcl(mode, contents, die) ==
    IF mode = "manual" THEN
        [output |-> << <<"# Floorplan manually specified from HAMMER">> >>
                    \o [i \in 1..Len(split(contents)) |-> <<split(contents)[i]>>],
         errors |-> <<>>]
    ELSE IF mode = "generate" THEN
        [output |-> generate_floorplan_tcl(die), errors |-> <<>>]
    ELSE
        [output |-> << <<"# Blank floorplan specified from HAMMER">> >>,
         errors |-> IF mode # "blank"
                    THEN <<"Invalid floorplan_mode " \o mode \o ". Using blank floorplan.">>
                    ELSE <<>>]

\* generate_mmmc_script with the delay corner naming the library set instead
\* of the timing condition
generate_mmmc_script_wrong_corner(libs, sdc, dir) ==
    LET library_set_name == "my_lib_set"
        timing_condition_name == "my_timing_condition"
        delay_corner_name == "my_delay_corner"
        constraint_mode == "my_constraint_mode"
        analysis_view_name == "my_view"
        sdc_files == IF sdc # "" THEN <<sdc>> ELSE <<>>
        blank_sdc == path_join(dir, "blank.sdc")
        sdc_files_arg == IF Len(sdc_files) > 0
                         THEN <<"-sdc_files", "[", "list">> \o sdc_files \o <<"]">>
                         ELSE <<"-sdc_files", "{", blank_sdc, "}">>
    IN  [script |-> <<
            <<"create_library_set", "-name", library_set_name, "-timing", "[", "list">>
                \o libs \o <<"]">>,
            <<"create_timing_condition", "-name", timing_condition_name,
              "-library_sets", "[", "list", library_set_name, "]">>,
            <<"create_delay_corner", "-name", delay_corner_name,
              "-timing_condition", library_set_name>>,
            <<"create_constraint_mode", "-name", constraint_mode>> \o sdc_files_arg,
            <<"create_analysis_view", "-name", analysis_view_name,
              "-delay_corner", delay_corner_name, "-constraint_mode", constraint_mode>>,
            <<"set_analysis_view", "-setup", "{", analysis_view_name, "}",
              "-hold", "{", analysis_view_name, "}">> >>,
         executed |-> IF Len(sdc_files) > 0 THEN <<>> ELSE << <<"touch", blank_sdc>> >>]

\* ------------------------------------------------- generate_mmmc_script
\* Returns the script lines and the run_executable calls it makes.
generate_mmmc_script(libs, sdc, dir) ==
    LET library_set_name == "my_lib_set"
        timing_condition_name == "my_timing_condition"
        delay_corner_name == "my_delay_corner"
        constraint_mode == "my_constraint_mode"
        analysis_view_name == "my_view"
        sdc_files == IF sdc # "" THEN <<sdc>> ELSE <<>>
        blank_sdc == path_join(dir, "blank.sdc")
        sdc_files_arg == IF Len(sdc_files) > 0
                         THEN <<"-sdc_files", "[", "list">> \o sdc_files \o <<"]">>
                         ELSE <<"-sdc_files", "{", blank_sdc, "}">>
    IN  [script |-> <<
            <<"create_library_set", "-name", library_set_name, "-timing", "[", "list">>
                \o libs \o <<"]">>,
            <<"create_timing_condition", "-name", timing_condition_name,
              "-library_sets", "[", "list", library_set_name, "]">>,
            <<"create_delay_corner", "-name", delay_corner_name,
              "-timing_condition", timing_condition_name>>,
            <<"create_constraint_mode", "-name", constraint_mode>> \o sdc_files_arg,
            <<"create_analysis_view", "-name", analysis_view_name,
              "-delay_corner", delay_corner_name, "-constraint_mode", constraint_mode>>,
            <<"set_analysis_view", "-setup", "{", analysis_view_name, "}",
              "-hold", "{", analysis_view_name, "}">> >>,
         executed |-> IF Len(sdc_files) > 0 THEN <<>> ELSE << <<"touch", blank_sdc>> >>]

\* ----------------------------------------------------------------- Init
Init ==
    /\ lef_files \in SeqsUpTo(LefNames, MaxLefs)
    /\ liberty_libs \in SeqsUpTo(LibNames, MaxLibs)
    /\ input_files \in SeqsUpTo(InputNames, MaxInputs)
    /\ top_module \in TopModules
    /\ floorplan_mode \in FloorplanModes
    \* the script text is a setting read in manual mode only (line 147)
    /\ floorplan_script_contents \in (IF floorplan_mode = "manual" THEN ScriptTexts ELSE {<<>>})
    /\ post_synth_sdc \in SdcPaths
    /\ die_size \in DieSizes
    /\ run_dir \in RunDirs
    /\ cwd \in Cwds
    /\ innovus_bin \in InnovusBins
    /\ pc = "start"
    /\ output = <<>>
    /\ output_innovus_lib_name = ""
    /\ files = <<>>
    /\ executed = <<>>
    /\ logged = <<>>
    /\ enable_colour = TRUE
    /\ enable_tag = TRUE
    /\ exit_status = -1
    /\ returned = "running"

\* --------------------------------------------------------------- do_run
\* One step of do_run that appends cmd to the log and moves on.
Emit(at, cmd, next) ==
    /\ pc = at
    /\ output' = verbose_tcl_append(cmd, output)
    /\ pc' = next

\* lines 27-41
ReadPhysical ==
    /\ Emit("start", <<"read_physical", "-lef", "{">> \o lef_files \o <<"}">>, "write_mmmc")
    /\ UNCHANGED <<config, output_innovus_lib_name, files, executed, logged,
                   enable_colour, enable_tag, exit_status, returned>>

\* lines 44-46 with blank.sdc created whether or not a constraint file is given
WriteMmmc_always_touches ==
    /\ pc = "write_mmmc"
    /\ LET r == generate_mmmc_script(liberty_libs, post_synth_sdc, run_dir)
       IN  /\ executed' = Append(executed, <<"touch", path_join(run_dir, "blank.sdc")>>)
           /\ files' = write_file(path_join(run_dir, "mmmc.tcl"), r.script)
    /\ pc' = "read_mmmc"
    /\ UNCHANGED <<config, output, output_innovus_lib_name, logged,
                   enable_colour, enable_tag, exit_status, returned>>

\* lines 44-46
WriteMmmc ==
    /\ pc = "write_mmmc"
    /\ LET r == generate_mmmc_script(liberty_libs, post_synth_sdc, run_dir)
       IN  /\ executed' = executed \o r.executed
           /\ files' = write_file(path_join(run_dir, "mmmc.tcl"), r.script)
    /\ pc' = "read_mmmc"
    /\ UNCHANGED <<config, output, output_innovus_lib_name, logged,
                   enable_colour, enable_tag, exit_status, returned>>

\* line 47
ReadMmmc ==
    /\ Emit("read_mmmc", <<"read_mmmc", path_join(run_dir, "mmmc.tcl")>>, "read_netlist")
    /\ UNCHANGED <<config, output_innovus_lib_name, files, executed, logged,
                   enable_colour, enable_tag, exit_status, returned>>

\* lines 51-52 with the result of the check ignored: the run goes on
NetlistMissing_goes_on ==
    /\ pc = "read_netlist"
    /\ ~check_input_files(input_files, {".v"})
    /\ pc' = "init_design"
    /\ UNCHANGED <<config, output, output_innovus_lib_name, files, executed, logged,
                   enable_colour, enable_tag, exit_status, returned>>

\* lines 51-52
NetlistMissing ==
    /\ pc = "read_netlist"
    /\ ~check_input_files(input_files, {".v"})
    /\ returned' = "false"
    /\ pc' = "done"
    /\ UNCHANGED <<config, output, output_innovus_lib_name, files, executed, logged,
                   enable_colour, enable_tag, exit_status>>

\* lines 51-58
ReadNetlist ==
    /\ check_input_files(input_files, {".v"})
    /\ Emit("read_netlist",
            <<"read_netlist", "{">>
              \o [i \in 1..Len(input_files) |-> path_join(cwd, file_name(input_files[i]))]
              \o <<"}", "-top", top_module>>,
            "init_design")
    /\ UNCHANGED <<config, output_innovus_lib_name, files, executed, logged,
                   enable_colour, enable_tag, exit_status, returned>>

\* line 61
InitDesign ==
    /\ Emit("init_design", <<"init_design">>, "set_effort")
    /\ UNCHANGED <<config, output_innovus_lib_name, files, executed, logged,
                   enable_colour, enable_tag, exit_status, returned>>

\* line 65
SetEffort ==
    /\ Emit("set_effort", <<"set_db", "design_flow_effort", "express">>, "write_floorplan")
    /\ UNCHANGED <<config, output_innovus_lib_name, files, executed, logged,
                   enable_colour, enable_tag, exit_status, returned>>

\* lines 67-69
WriteFloorplan ==
    /\ pc = "write_floorplan"
    /\ LET r == create_floorplan_tcl(floorplan_mode, floorplan_script_contents, die_size)
       IN  /\ logged' = logged \o r.errors
           /\ files' = write_file(path_join(run_dir, "floorplan.tcl"), r.output)
    /\ pc' = "source_floorplan"
    /\ UNCHANGED <<config, output, output_innovus_lib_name, executed,
                   enable_colour, enable_tag, exit_status, returned>>

\* line 70
SourceFloorplan ==
    /\ Emit("source_floorplan",
            <<"source", "-echo", "-verbose", path_join(run_dir, "floorplan.tcl")>>,
            "place_opt_design")
    /\ UNCHANGED <<config, output_innovus_lib_name, files, executed, logged,
                   enable_colour, enable_tag, exit_status, returned>>

\* line 73 left out: placement is never emitted
PlaceOptDesign_left_out ==
    /\ pc = "place_opt_design"
    /\ pc' = "route_design"
    /\ UNCHANGED <<config, output, output_innovus_lib_name, files, executed, logged,
                   enable_colour, enable_tag, exit_status, returned>>

\* line 73
PlaceOptDesign ==
    /\ Emit("place_opt_design", <<"place_opt_design">>, "route_design")
    /\ UNCHANGED <<config, output_innovus_lib_name, files, executed, logged,
                   enable_colour, enable_tag, exit_status, returned>>

\* line 76
RouteDesign ==
    /\ Emit("route_design", <<"route_design">>, "opt_design")
    /\ UNCHANGED <<config, output_innovus_lib_name, files, executed, logged,
                   enable_colour, enable_tag, exit_status, returned>>

\* line 79
OptDesign ==
    /\ Emit("opt_design", <<"opt_design", "-post_route", "-setup", "-hold">>, "write_db")
    /\ UNCHANGED <<config, output_innovus_lib_name, files, executed, logged,
                   enable_colour, enable_tag, exit_status, returned>>

\* lines 82-85
WriteDb ==
    /\ output_innovus_lib_name' = top_module \o "_ENC"
    /\ Emit("write_db", <<"write_db", output_innovus_lib_name', "-def", "-verilog">>,
            "write_stream")
    /\ UNCHANGED <<config, files, executed, logged,
                   enable_colour, enable_tag, exit_status, returned>>

\* line 88
WriteStream ==
    /\ Emit("write_stream",
            <<"write_stream", "-output_macros", "-mode", "ALL", "-unit", "1000", "gds_file">>,
            "exit")
    /\ UNCHANGED <<config, output_innovus_lib_name, files, executed, logged,
                   enable_colour, enable_tag, exit_status, returned>>

\* line 92
Exit ==
    /\ Emit("exit", <<"exit">>, "write_par")
    /\ UNCHANGED <<config, output_innovus_lib_name, files, executed, logged,
                   enable_colour, enable_tag, exit_status, returned>>

\* lines 95-97
WriteParTcl ==
    /\ pc = "write_par"
    /\ files' = write_file(path_join(run_dir, "par.tcl"), output)
    /\ pc' = "write_open_chip_tcl"
    /\ UNCHANGED <<config, output, output_innovus_lib_name, executed, logged,
                   enable_colour, enable_tag, exit_status, returned>>

\* lines 100-107 with the reopen script naming the bare top module
WriteOpenChipTcl_bare_top ==
    /\ pc = "write_open_chip_tcl"
    /\ files' = write_file(path_join(path_join(run_dir, "generated-scripts"), "open_chip.tcl"),
                           << <<>>, <<"read_db", top_module>>, <<>> >>)
    /\ pc' = "write_open_chip"
    /\ UNCHANGED <<config, output, output_innovus_lib_name, executed, logged,
                   enable_colour, enable_tag, exit_status, returned>>

\* lines 100-107
WriteOpenChipTcl ==
    /\ pc = "write_open_chip_tcl"
    /\ files' = write_file(path_join(path_join(run_dir, "generated-scripts"), "open_chip.tcl"),
                           << <<>>, <<"read_db", output_innovus_lib_name>>, <<>> >>)
    /\ pc' = "write_open_chip"
    /\ UNCHANGED <<config, output, output_innovus_lib_name, executed, logged,
                   enable_colour, enable_tag, exit_status, returned>>

\* lines 109-114
WriteOpenChip ==
    /\ pc = "write_open_chip"
    /\ files' = write_file(path_join(path_join(run_dir, "generated-scripts"), "open_chip"),
                           << <<>>,
                              <<"cd", run_dir>>,
                              <<"source", "enter">>,
                              <<"$INNOVUS_BIN", "-common_ui", "-files",
                                "generated-scripts/open_chip.tcl">>,
                              <<>> >>)
    /\ pc' = "chmod"
    /\ UNCHANGED <<config, output, output_innovus_lib_name, executed, logged,
                   enable_colour, enable_tag, exit_status, returned>>

\* lines 115-117
Chmod ==
    /\ pc = "chmod"
    /\ executed' = Append(executed,
                          <<"chmod", "+x",
                            path_join(path_join(run_dir, "generated-scripts"), "open_chip")>>)
    /\ pc' = "disable_decoration"
    /\ UNCHANGED <<config, output, output_innovus_lib_name, files, logged,
                   enable_colour, enable_tag, exit_status, returned>>

\* the argument list of lines 120-125
tool_args == <<innovus_bin, "-nowin", "-common_ui", "-files", path_join(run_dir, "par.tcl")>>

\* lines 129-130
DisableDecoration ==
    /\ pc = "disable_decoration"
    /\ enable_colour' = FALSE
    /\ enable_tag' = FALSE
    /\ pc' = "run_tool"
    /\ UNCHANGED <<config, output, output_innovus_lib_name, files, executed, logged,
                   exit_status, returned>>

\* line 131 with one retry after a failed run of the tool
RunToolReturns_retries ==
    /\ pc = "run_tool"
    /\ executed' = Append(executed, tool_args)
    /\ \E status \in ExitStatuses :
          /\ exit_status' = status
          /\ pc' = IF status # 0 /\ exit_status = -1 THEN "run_tool" ELSE "restore_decoration"
    /\ UNCHANGED <<config, output, output_innovus_lib_name, files, logged,
                   enable_colour, enable_tag, returned>>

\* line 131, the subprocess runs to its end with any exit status
RunToolReturns ==
    /\ pc = "run_tool"
    /\ executed' = Append(executed, tool_args)
    /\ \E status \in ExitStatuses : exit_status' = status
    /\ pc' = "restore_decoration"
    /\ UNCHANGED <<config, output, output_innovus_lib_name, files, logged,
                   enable_colour, enable_tag, returned>>

\* line 131, the launch raises (e.g. the binary does not exist): the
\* exception leaves do_run, nothing after line 131 runs
RunToolRaises ==
    /\ pc = "run_tool"
    /\ executed' = Append(executed, tool_args)
    /\ returned' = "raised"
    /\ pc' = "done"
    /\ UNCHANGED <<config, output, output_innovus_lib_name, files, logged,
                   enable_colour, enable_tag, exit_status>>

\* lines 132-133
RestoreDecoration ==
    /\ pc = "restore_decoration"
    /\ enable_colour' = TRUE
    /\ enable_tag' = TRUE
    /\ pc' = "return"
    /\ UNCHANGED <<config, output, output_innovus_lib_name, files, executed, logged,
                   exit_status, returned>>

\* line 137 with the result taken from the tool's exit status
ReturnTrue_by_status ==
    /\ pc = "return"
    /\ returned' = IF exit_status = 0 THEN "true" ELSE "false"
    /\ pc' = "done"
    /\ UNCHANGED <<config, output, output_innovus_lib_name, files, executed, logged,
                   enable_colour, enable_tag, exit_status>>

\* line 137
ReturnTrue ==
    /\ pc = "return"
    /\ returned' = "true"
    /\ pc' = "done"
    /\ UNCHANGED <<config, output, output_innovus_lib_name, files, executed, logged,
                   enable_colour, enable_tag, exit_status>>

Next ==
    \/ ReadPhysical
    \/ WriteMmmc
    \/ ReadMmmc
    \/ NetlistMissing
    \/ ReadNetlist
    \/ InitDesign
    \/ SetEffort
    \/ WriteFloorplan
    \/ SourceFloorplan
    \/ PlaceOptDesign
    \/ RouteDesign
    \/ OptDesign
    \/ WriteDb
    \/ WriteStream
    \/ Exit
    \/ WriteParTcl
    \/ WriteOpenChipTcl
    \/ WriteOpenChip
    \/ Chmod
    \/ DisableDecoration
    \/ RunToolReturns
    \/ RunToolRaises
    \/ RestoreDecoration
    \/ ReturnTrue

Spec == Init /\ [][Next]_vars

\* ------------------------------------------------------- claim helpers
IsPrefix(s, t) == Len(s) <= Len(t) /\ SubSeq(t, 1, Len(s)) = s

mmmc_path == path_join(run_dir, "mmmc.tcl")
floorplan_path == path_join(run_dir, "floorplan.tcl")
par_path == path_join(run_dir, "par.tcl")
open_chip_tcl_path == path_join(path_join(run_dir, "generated-scripts"), "open_chip.tcl")
open_chip_path == path_join(path_join(run_dir, "generated-scripts"), "open_chip")
blank_sdc_path == path_join(run_dir, "blank.sdc")

NetlistOk == check_input_files(input_files, {".v"})

\* how often the place-and-route tool was launched
RECURSIVE CountOf(_, _)
CountOf(seq, x) ==
    IF seq = <<>> THEN 0
    ELSE (IF Head(seq) = x THEN 1 ELSE 0) + CountOf(Tail(seq), x)

Launches == CountOf(executed, tool_args)

\* the leading words that identify the twelve commands, in order
CommandOrder ==
    << <<"read_physical", "-lef">>,
       <<"read_mmmc">>,
       <<"read_netlist">>,
       <<"init_design">>,
       <<"set_db", "design_flow_effort", "express">>,
       <<"source", "-echo", "-verbose">>,
       <<"place_opt_design">>,
       <<"route_design">>,
       <<"opt_design", "-post_route">>,
       <<"write_db">>,
       <<"write_stream">>,
       <<"exit">> >>

FollowsOrder(log) ==
    /\ Len(log) <= Len(CommandOrder)
    /\ \A i \in 1..Len(log) : IsPrefix(CommandOrder[i], log[i])

\* ------------------------------------------------------------------ C1
\* C1: whenever the netlist check passes, the log written to par.tcl is
\* exactly the twelve commands read_physical, read_mmmc, read_netlist,
\* init_design, set_db design_flow_effort express, source floorplan.tcl,
\* place_opt_design, route_design, opt_design -post_route, write_db,
\* write_stream, exit, in that order, whatever the configuration; every
\* step of do_run only appends to the log, and exit is its last entry.
C1_LogState ==
    /\ FollowsOrder(output)
    /\ (NetlistOk /\ pc = "done") => Written(par_path)
    /\ Written(par_path) =>
          /\ Content(par_path) = output
          /\ Len(output) = 12
          /\ output[12] = <<"exit">>
          /\ output[6][Len(output[6])] = floorplan_path
          /\ \A i, j \in 1..12 : i # j => output[i] # output[j]

C1_CommandOrder == [](C1_LogState) /\ [][IsPrefix(output, output')]_vars

C1_Witness ==
    /\ pc = "done" /\ returned = "true"
    /\ floorplan_mode = "manual" /\ post_synth_sdc = "" /\ Len(input_files) = 2
    /\ Len(Content(par_path)) = 12

\* ------------------------------------------------------------------ C2
\* C2: when the input files hold no structural netlist, do_run returns
\* failure and does nothing more: par.tcl, floorplan.tcl and the two
\* generated-scripts files are never written, nothing after read_mmmc is
\* appended to the log, and the tool is never launched.
C2_MissingNetlistStops ==
    ~NetlistOk =>
        /\ pc \in {"start", "write_mmmc", "read_mmmc", "read_netlist", "done"}
        /\ (pc = "done" => returned = "false")
        /\ ~Written(par_path)
        /\ ~Written(floorplan_path)
        /\ ~Written(open_chip_tcl_path)
        /\ ~Written(open_chip_path)
        /\ Len(output) <= 2
        /\ \A i \in 1..Len(output) : output[i][1] \in {"read_physical", "read_mmmc"}
        /\ Launches = 0
        /\ \A i \in 1..Len(executed) : executed[i][1] = "touch"

C2_Witness ==
    /\ ~NetlistOk /\ Len(input_files) > 0
    /\ pc = "done" /\ returned = "false"
    /\ Len(output) = 2 /\ Written(mmmc_path)

\* ------------------------------------------------------------------ C3
\* C3: the logging-decoration flags are off only while the tool subprocess
\* runs, and whenever do_run has ended (missing netlist, normal completion,
\* or the launch raising) both flags are on again.
C3_DecorationRestored ==
    /\ (~enable_colour \/ ~enable_tag) => pc \in {"run_tool", "restore_decoration"}
    /\ pc = "done" => (enable_colour /\ enable_tag)
C3_Witness ==
    /\ pc = "done" /\ returned = "raised" /\ Launches = 1

\* ------------------------------------------------------------------ C4
\* C4: for every floorplan mode other than "manual" and "generate" the
\* floorplan is the single line "# Blank floorplan specified from HAMMER"
\* and the run goes on to the launch; one error naming the mode is logged
\* exactly when the mode is not the literal "blank".
C4_InvalidModeIsBlank ==
    floorplan_mode \notin {"manual", "generate"} =>
        /\ Written(floorplan_path) =>
              /\ Content(floorplan_path) = << <<"# Blank floorplan specified from HAMMER">> >>
              /\ floorplan_mode = "blank" => logged = <<>>
              /\ floorplan_mode = "bogus" =>
                    logged = <<"Invalid floorplan_mode bogus. Using blank floorplan.">>
              /\ floorplan_mode # "blank" =>
                    logged = <<"Invalid floorplan_mode " \o floorplan_mode
                               \o ". Using blank floorplan.">>
              /\ pc # "write_floorplan"
              /\ pc = "done" => (Launches = 1 /\ returned \in {"true", "raised"})
        /\ ~Written(floorplan_path) => logged = <<>>

C4_Witness ==
    /\ floorplan_mode = "bogus" /\ Written(floorplan_path)
    /\ Len(logged) = 1 /\ pc = "done" /\ returned = "true"

\* ------------------------------------------------------------------ C5
\* C5: in "generate" mode the floorplan is the provenance comment followed
\* by exactly one create_floorplan command, and that command is derived
\* from the configured die size and margins: any other configured die size
\* would have produced a different command.
C5_GenerateUsesDieSize ==
    (floorplan_mode = "generate" /\ Written(floorplan_path)) =>
        LET fp == Content(floorplan_path)
        IN  /\ Len(fp) = 2
            /\ fp[1] = <<"# Floorplan automatically generated from HAMMER">>
            /\ fp[2][1] = "create_floorplan"
            /\ \A other \in DieSizes \ {die_size} :
                  create_floorplan_tcl("generate", floorplan_script_contents, other).output[2]
                     # fp[2]

C5_Witness ==
    /\ floorplan_mode = "generate" /\ Written(floorplan_path)
    /\ Len(Content(floorplan_path)) = 2

\* ------------------------------------------------------------------ C6
\* the constraint files a create_constraint_mode command names
SdcFilesOf(cmd) ==
    LET at == CHOOSE i \in 1..Len(cmd) : cmd[i] = "-sdc_files"
    IN  SelectSeq(SubSeq(cmd, at + 1, Len(cmd)),
                  LAMBDA w : w \notin {"[", "list", "]", "{", "}"})

Touched(path) == \E i \in 1..Len(executed) : executed[i] = <<"touch", path>>

\* C6: blank.sdc is created exactly when no post-synthesis constraint file
\* is supplied; the constraint mode then names blank.sdc alone, otherwise it
\* names the supplied file alone and blank.sdc is neither created nor named.
\* Either way the constraint mode names at least one constraint file.
C6_BlankSdcIffNoConstraints ==
    /\ ~Written(mmmc_path) => ~Touched(blank_sdc_path)
    /\ Written(mmmc_path) =>
          LET named == SdcFilesOf(Content(mmmc_path)[4])
          IN  /\ Content(mmmc_path)[4][1] = "create_constraint_mode"
              /\ Touched(blank_sdc_path) <=> (post_synth_sdc = "")
              /\ post_synth_sdc = "" => named = <<blank_sdc_path>>
              /\ post_synth_sdc # "" =>
                    (named = <<post_synth_sdc>> /\ post_synth_sdc # blank_sdc_path)
              /\ Len(named) >= 1

C6_Witness ==
    /\ post_synth_sdc = "" /\ Written(mmmc_path) /\ Touched(blank_sdc_path)
    /\ pc = "done"

\* ------------------------------------------------------------------ C7
\* the word after an option of a command
OptionOf(cmd, opt) ==
    LET at == CHOOSE i \in 1..Len(cmd) : cmd[i] = opt
    IN  cmd[at + 1]

\* the words of the list ([list ...] or { ... }) after an option of a command
RECURSIVE UpToClose(_)
UpToClose(words) ==
    IF words = <<>> \/ Head(words) \in {"]", "}"} THEN <<>>
    ELSE <<Head(words)>> \o UpToClose(Tail(words))

ListOf(cmd, opt) ==
    LET at == CHOOSE i \in 1..Len(cmd) : cmd[i] = opt
    IN  SelectSeq(UpToClose(SubSeq(cmd, at + 2, Len(cmd))), LAMBDA w : w # "list")

\* C7: for any non-empty library list and either constraint case, mmmc.tcl
\* holds exactly one create_library_set, create_timing_condition,
\* create_delay_corner, create_constraint_mode and create_analysis_view, in
\* that order, then one set_analysis_view; each declaration names the one it
\* depends on, and the one view is both the setup and the hold view.
C7_SingleCornerGraph ==
    (Len(liberty_libs) > 0 /\ Written(mmmc_path)) =>
        LET m == Content(mmmc_path)
        IN  /\ [i \in 1..Len(m) |-> m[i][1]] =
                  <<"create_library_set", "create_timing_condition", "create_delay_corner",
                    "create_constraint_mode", "create_analysis_view", "set_analysis_view">>
            /\ ListOf(m[1], "-timing") = liberty_libs
            /\ ListOf(m[2], "-library_sets") = <<OptionOf(m[1], "-name")>>
            /\ OptionOf(m[3], "-timing_condition") = OptionOf(m[2], "-name")
            /\ OptionOf(m[5], "-delay_corner") = OptionOf(m[3], "-name")
            /\ OptionOf(m[5], "-constraint_mode") = OptionOf(m[4], "-name")
            /\ ListOf(m[6], "-setup") = <<OptionOf(m[5], "-name")>>
            /\ ListOf(m[6], "-hold") = <<OptionOf(m[5], "-name")>>
            /\ Cardinality({OptionOf(m[i], "-name") : i \in 1..5}) = 5

C7_Witness ==
    /\ Len(liberty_libs) = 2 /\ post_synth_sdc # "" /\ Written(mmmc_path)
    /\ Len(Content(mmmc_path)) = 6

\* ------------------------------------------------------------------ C8
DbNameOf == [m \in TopModules |-> IF m = "core" THEN "core_ENC" ELSE "top_ENC"]

\* C8: the database name written by write_db in par.tcl and the one read by
\* read_db in generated-scripts/open_chip.tcl are the same string, the top
\* module name followed by "_ENC" ("core" gives "core_ENC").
C8_DatabaseName ==
    /\ Written(par_path) => OptionOf(Content(par_path)[10], "write_db") = DbNameOf[top_module]
    /\ Written(open_chip_tcl_path) =>
          /\ Content(open_chip_tcl_path)[2][1] = "read_db"
          /\ OptionOf(Content(open_chip_tcl_path)[2], "read_db")
                = OptionOf(Content(par_path)[10], "write_db")
          /\ OptionOf(Content(open_chip_tcl_path)[2], "read_db") = DbNameOf[top_module]
    /\ (pc = "done" /\ returned = "true") => Written(open_chip_tcl_path)

C8_Witness ==
    /\ pc = "done" /\ returned = "true" /\ top_module = "core"
    /\ Content(open_chip_tcl_path)[2] = <<"read_db", "core_ENC">>

\* ------------------------------------------------------------------ C9
HasCommand(log, word) == \E i \in 1..Len(log) : log[i][1] = word

\* C9: the tool is launched at most once and never retried: once when the
\* netlist check passes, never when it fails; at the launch mmmc.tcl,
\* floorplan.tcl, the complete par.tcl and both companion scripts are
\* written and open_chip is made executable; mmmc.tcl and floorplan.tcl are
\* each written before the directive that names them enters the log.
C9_LaunchOnceAfterAssembly ==
    /\ Launches <= 1
    /\ pc = "done" => Launches = (IF NetlistOk THEN 1 ELSE 0)
    /\ (Launches > 0 \/ pc = "run_tool") =>
          /\ Written(mmmc_path) /\ Written(floorplan_path) /\ Written(par_path)
          /\ Written(open_chip_tcl_path) /\ Written(open_chip_path)
          /\ Len(Content(par_path)) = 12
          /\ Content(par_path)[12] = <<"exit">>
          /\ Content(par_path) = output
          /\ \E i \in 1..Len(executed) : executed[i] = <<"chmod", "+x", open_chip_path>>
    /\ HasCommand(output, "read_mmmc") => Written(mmmc_path)
    /\ HasCommand(output, "source") => Written(floorplan_path)
    /\ \A i, j \in 1..Len(files) : i # j => files[i].path # files[j].path

C9_Witness ==
    /\ Launches = 1 /\ pc = "done" /\ returned = "true" /\ exit_status = 1
    /\ Len(files) = 5

\* ----------------------------------------------------------------- C10
\* C10: do_run's result depends on the netlist check alone: once the
\* subprocess has returned, with whatever exit status, the result is true;
\* the result is false only when the netlist is missing.
C10_ResultIgnoresTool ==
    /\ returned \in {"running", "true", "false", "raised"}
    /\ returned = "false" => ~NetlistOk
    /\ returned = "true" => (NetlistOk /\ exit_status \in ExitStatuses)
    /\ (pc = "done" /\ NetlistOk /\ exit_status \in ExitStatuses) => returned = "true"
    /\ (pc = "done" /\ ~NetlistOk) => returned = "false"

C10_Witness ==
    /\ pc = "done" /\ NetlistOk /\ exit_status = 1 /\ returned = "true"

====
